---------------------------- MODULE Spec2Model ----------------------------
(***************************************************************************)
(* adsb-go-dataset (src/main.go): the SBS1 line decoder (Parse and its     *)
(* field parsers) and the batching read loop of runApp.                    *)
(*                                                                         *)
(* Text is a sequence of one-character strings.  A Go int is kept as sign  *)
(* and magnitude, the magnitude as four 16-bit limbs (least significant    *)
(* first), so that 64-bit values stay inside TLC's 32-bit integers; an     *)
(* int32 is an ordinary integer.                                           *)
(***************************************************************************)
EXTENDS Integers, Sequences, FiniteSets, TLC

---------------------------------------------------------------------------
(* Bounds of the model *)

\* lines the read loop takes from the connection before the stream ends
MaxLines == 5
\* largest configured BATCH_SIZE explored
MaxBatch == 3
\* fields a report may have beyond the 22 it needs
MaxExtra == 2

---------------------------------------------------------------------------
(* Text helpers: strings.TrimSpace, strings.Split *)

Digits == {"0", "1", "2", "3", "4", "5", "6", "7", "8", "9"}

IsDigit(c) == c \in Digits

DigitVal(c) ==
    CASE c = "0" -> 0 [] c = "1" -> 1 [] c = "2" -> 2 [] c = "3" -> 3
      [] c = "4" -> 4 [] c = "5" -> 5 [] c = "6" -> 6 [] c = "7" -> 7
      [] c = "8" -> 8 [] c = "9" -> 9

\* the value of a run of digits
RECURSIVE DigitsValue(_, _)
DigitsValue(ds, acc) ==
    IF ds = <<>> THEN acc ELSE DigitsValue(Tail(ds), acc * 10 + DigitVal(Head(ds)))

(* A text is a sequence of characters, each a one-character string; a       *)
(* character that has no escape in a string here is written by its code     *)
(* point, as in "U+000B" for the vertical tab.                              *)

\* unicode.IsSpace: the white space strings.TrimSpace removes
WhiteSpace ==
    {" ", "\t", "\n", "U+000B", "\f", "\r", "U+0085", "U+00A0", "U+1680",
     "U+2000", "U+2001", "U+2002", "U+2003", "U+2004", "U+2005", "U+2006",
     "U+2007", "U+2008", "U+2009", "U+200A", "U+2028", "U+2029", "U+202F",
     "U+205F", "U+3000"}

IsSpace(c) == c \in WhiteSpace

RECURSIVE TrimLeft(_)
TrimLeft(s) ==
    IF s # <<>> /\ IsSpace(Head(s)) THEN TrimLeft(Tail(s)) ELSE s

RECURSIVE TrimRight(_)
TrimRight(s) ==
    IF s # <<>> /\ IsSpace(s[Len(s)]) THEN TrimRight(SubSeq(s, 1, Len(s) - 1)) ELSE s

TrimSpace(s) == TrimRight(TrimLeft(s))

\* strings.Split(s, sep) for a one-character sep: the texts between the
\* places of sep, one more than there are places (always at least one)
Split(s, sep) ==
    LET IsCut(i) == s[i] = sep
        cuts == SelectSeq([i \in 1..Len(s) |-> i], IsCut)
        n == Len(cuts)
    IN [k \in 1..(n + 1) |->
           SubSeq(s, IF k = 1 THEN 1 ELSE cuts[k - 1] + 1,
                     IF k = n + 1 THEN Len(s) ELSE cuts[k] - 1)]

---------------------------------------------------------------------------
(* The texts the lines of the feeds are made of *)

\* a transmission-type-3 report as dump1090 writes it
GoodFields ==
    <<<<"M", "S", "G">>,
      <<"3">>,
      <<"1">>,
      <<"1">>,
      <<"4", "C", "A", "2", "D", "6">>,
      <<"1">>,
      <<"2", "0", "2", "3", "/", "0", "5", "/", "0", "1">>,
      <<"1", "2", ":", "0", "0", ":", "0", "0", ".", "0", "0", "0">>,
      <<"2", "0", "2", "3", "/", "0", "5", "/", "0", "1">>,
      <<"1", "2", ":", "0", "0", ":", "0", "1", ".", "0", "0", "0">>,
      <<"B", "A", "W", "1", "2", " ">>,
      <<"3", "5", "0", "0", "0">>,
      <<"4", "5", "0", ".", "5">>,
      <<"9", "0">>,
      <<"5", "1", ".", "5">>,
      <<"-", "0", ".", "1", "2">>,
      <<"-", "6", "4">>,
      <<"7", "0", "0", "0">>,
      <<"0">>,
      <<"0">>,
      <<"0">>,
      <<"1">>>>

\* a report whose every value field is unparsable
BadFields ==
    <<<<"M", "S", "G">>,
      <<"x">>,
      <<>>,
      <<>>,
      <<>>,
      <<>>,
      <<"g">>,
      <<"1", "2", ":", "0", "0", ":", "0", "0">>,
      <<"2", "0", "2", "3", "/", "0", "5", "/", "0", "1">>,
      <<"x">>,
      <<>>,
      <<"1", ".", "5">>,
      <<"x">>,
      <<>>,
      <<"1", ".", "2", ".", "3">>,
      <<"-">>,
      <<>>,
      <<"7", " ">>,
      <<"x">>,
      <<>>,
      <<"t", "r", "u", "e">>,
      <<"-">>>>

\* a report whose latitude reads NaN
NanFields ==
    <<<<"M", "S", "G">>,
      <<"3">>,
      <<"1">>,
      <<"1">>,
      <<"4", "C", "A", "2", "D", "6">>,
      <<"1">>,
      <<"2", "0", "2", "3", "/", "0", "5", "/", "0", "1">>,
      <<"1", "2", ":", "0", "0", ":", "0", "0", ".", "0", "0", "0">>,
      <<"2", "0", "2", "3", "/", "0", "5", "/", "0", "1">>,
      <<"1", "2", ":", "0", "0", ":", "0", "1", ".", "0", "0", "0">>,
      <<"B", "A", "W", "1", "2", " ">>,
      <<"3", "5", "0", "0", "0">>,
      <<"4", "5", "0", ".", "5">>,
      <<"9", "0">>,
      <<"N", "a", "N">>,
      <<"-", "0", ".", "1", "2">>,
      <<"-", "6", "4">>,
      <<"7", "0", "0", "0">>,
      <<"0">>,
      <<"0">>,
      <<"0">>,
      <<"1">>>>

\* a line of 22 fields that is not a MSG line
OtherFields ==
    <<<<"S", "T", "A">>,
      <<>>,
      <<"1">>,
      <<"1">>,
      <<"4", "C", "A", "2", "D", "6">>,
      <<"1">>,
      <<"2", "0", "2", "3", "/", "0", "5", "/", "0", "1">>,
      <<"1", "2", ":", "0", "0", ":", "0", "0", ".", "0", "0", "0">>,
      <<"2", "0", "2", "3", "/", "0", "5", "/", "0", "1">>,
      <<"1", "2", ":", "0", "0", ":", "0", "1", ".", "0", "0", "0">>,
      <<"R", "M">>,
      <<>>,
      <<>>,
      <<>>,
      <<>>,
      <<>>,
      <<>>,
      <<>>,
      <<>>,
      <<>>,
      <<>>,
      <<>>>>

\* a MSG line cut short
ShortFields ==
    <<<<"M", "S", "G">>,
      <<"3">>,
      <<"1">>,
      <<"1">>,
      <<"4", "C", "A", "2", "D", "6">>,
      <<"1">>>>

\* texts tried in the integer fields
SmallIntTexts ==
    {<<"0">>,
     <<"7">>,
     <<"-", "5">>,
     <<"+", "1", "2">>,
     <<"0", "0", "7">>,
     <<"-", "0">>,
     <<"3", "5", "0", "0", "0">>,
     <<>>,
     <<"x">>,
     <<"-">>,
     <<"+">>,
     <<"1", ".", "5">>,
     <<" ", "7">>,
     <<"7", " ">>,
     <<"1", "e", "3">>,
     <<"0", "x", "1", "0">>,
     <<"1", "_", "0">>,
     <<"-", "-", "1">>}

\* texts tried in the float fields
FloatTexts ==
    {<<"0">>,
     <<"1", ".", "5">>,
     <<"-", "0", ".", "1", "2">>,
     <<"4", "5", "0">>,
     <<".", "5">>,
     <<"5", ".">>,
     <<"+", "2", ".", "5", "0">>,
     <<"-", "0">>,
     <<>>,
     <<"x">>,
     <<".">>,
     <<"-">>,
     <<"1", ".", "2", ".", "3">>,
     <<" ", "1">>,
     <<"1", " ">>,
     <<"N", "a", "N">>,
     <<"n", "a", "n">>,
     <<"i", "n", "f">>,
     <<"-", "I", "n", "f">>,
     <<"+", "i", "n", "f", "i", "n", "i", "t", "y">>,
     <<"i", "n", "f", "i">>,
     <<"+", "n", "a", "n">>,
     <<"1", "-">>,
     <<"4", "5", "0", ".", "5">>,
     <<"9", "0">>,
     <<"5", "1", ".", "5">>,
     <<"1", "e", "3">>,
     <<"1", "E", "3">>,
     <<"1", ".", "5", "e", "-", "2">>,
     <<"1", "e", "+", "2">>,
     <<"0", "e", "5">>,
     <<"0", "x", "1", "p", "4">>,
     <<"0", "X", "1", "P", "-", "2">>,
     <<"0", "x", "1", ".", "8", "p", "1">>,
     <<"0", "x", ".", "8", "p", "1">>,
     <<"0", "x", "A", "p", "0">>,
     <<"1", "_", "0">>,
     <<"1", "_", "0", "0", "0", ".", "5">>,
     <<"0", "x", "_", "1", "p", "0">>,
     <<"1", "e", "1", "_", "0">>,
     <<"1", "e">>,
     <<"1", "e", "+">>,
     <<"e", "3">>,
     <<"1", "_">>,
     <<"_", "1">>,
     <<"1", "_", "_", "0">>,
     <<"1", "_", "e", "3">>,
     <<"1", "e", "3", "_">>,
     <<"1", ".", "_", "5">>,
     <<"0", "x", "1">>,
     <<"0", "x">>,
     <<"0", "x", "p", "1">>,
     <<"0", "x", "1", "p">>,
     <<"0", "x", "1", "p", "+">>,
     <<"1", "e", "3", "x">>,
     <<"1", ".", "5", ".", "e", "3">>,
     <<"1", "e", "3", "9">>,
     <<"4", "e", "3", "8">>,
     <<"3", ".", "4", "0", "2", "8", "2", "3", "5", "e", "3", "8">>,
     <<"3", ".", "4", "0", "2", "8", "2", "3", "6", "e", "3", "8">>,
     <<"3", ".", "4", "0", "2", "8", "2", "3", "5", "6", "7", "7", "9", "7", "3", "3", "6", "6", "e", "3", "8">>,
     <<"3", ".", "4", "0", "2", "8", "2", "3", "5", "6", "7", "7", "9", "7", "3", "3", "6", "7", "e", "3", "8">>,
     <<"1", "0", "0", "0", "0", "0", "0", "0", "0", "0", "0", "0", "0", "0", "0", "0", "0", "0", "0", "0", "0", "0", "0", "0", "0", "0", "0", "0", "0", "0", "0", "0", "0", "0", "0", "0", "0", "0", "0", "0">>,
     <<"1", "e", "9", "9", "9", "9", "9">>,
     <<"1", "e", "-", "9", "9", "9", "9", "9">>,
     <<"0", "x", "1", "p", "1", "2", "8">>,
     <<"0", "x", "1", ".", "f", "f", "f", "f", "f", "e", "p", "1", "2", "7">>,
     <<"0", "x", "1", ".", "f", "f", "f", "f", "f", "f", "p", "1", "2", "7">>,
     <<"0", "x", "1", "p", "-", "1", "4", "9">>,
     <<"0", "x", "1", "p", "-", "1", "5", "0">>,
     <<"0", "x", "1", ".", "8", "p", "-", "1", "5", "0">>,
     <<"0", "x", "1", "p", "-", "9", "9", "9", "9", "9">>,
     <<"1", "e", "-", "4", "5">>,
     <<"7", "e", "-", "4", "6">>,
     <<"8", "e", "-", "4", "6">>,
     <<"1", "e", "-", "4", "6">>,
     <<"1", "e", "-", "5", "0">>,
     <<"0", ".", "0", "0", "0", "0", "0", "0", "0", "0", "0", "0", "0", "0", "0", "0", "0", "0", "0", "0", "0", "0", "0", "0", "0", "0", "0", "0", "0", "0", "0", "0", "0", "0", "0", "0", "0", "0", "0", "0", "0", "0", "0", "0", "0", "0", "0", "0", "0", "0", "0", "1">>,
     <<"7", ".", "0", "0", "6", "4", "9", "2", "3", "2", "1", "6", "2", "4", "0", "8", "5", "e", "-", "4", "6">>,
     <<"7", ".", "0", "0", "6", "4", "9", "2", "3", "2", "1", "6", "2", "4", "0", "8", "6", "e", "-", "4", "6">>,
     <<"1", "5", "0", ".", "0", "0", "0", "0", "1">>,
     <<"1", "5", "0", ".", "0", "0", "0", "0", "2">>,
     <<"1", "6", "7", "7", "7", "2", "1", "6">>,
     <<"1", "6", "7", "7", "7", "2", "1", "7">>,
     <<"1", "6", "7", "7", "7", "2", "1", "9">>,
     <<"1", "7", "9", ".", "1", "2", "3", "4", "5">>,
     <<"-", "1", "7", "9", ".", "1", "2", "3", "4", "5">>,
     <<"0", ".", "1">>,
     <<"3", "3", "5", "5", "4", "4", "3", "5">>,
     <<"0", "x", "1", ".", "0", "0", "0", "0", "0", "1", "p", "0">>,
     <<"0", "x", "1", ".", "0", "0", "0", "0", "0", "1", "8", "p", "0">>,
     <<"0", "x", "1", ".", "0", "0", "0", "0", "0", "3", "p", "0">>}

\* texts tried in the boolean fields
BoolTexts ==
    {<<"1">>,
     <<"0">>,
     <<>>,
     <<"x">>,
     <<"2">>,
     <<"-", "1">>,
     <<"+", "0">>,
     <<"0", "0">>,
     <<"0", "1">>,
     <<"t", "r", "u", "e">>,
     <<"1", " ">>,
     <<" ", "1">>,
     <<"4", "2", "9", "4", "9", "6", "7", "2", "9", "6">>,
     <<"2", "1", "4", "7", "4", "8", "3", "6", "4", "8">>,
     <<"9", "9", "9", "9", "9", "9", "9", "9", "9", "9", "9", "9", "9", "9", "9", "9", "9", "9", "9", "9">>}

\* texts tried in the date fields
DateTexts ==
    {<<"2", "0", "2", "3", "/", "0", "5", "/", "0", "1">>,
     <<"2", "0", "2", "4", "/", "0", "2", "/", "2", "9">>,
     <<"2", "0", "2", "3", "/", "0", "2", "/", "2", "9">>,
     <<"2", "0", "2", "3", "/", "1", "3", "/", "0", "1">>,
     <<"2", "0", "2", "3", "/", "0", "5", "/", "0", "0">>,
     <<"2", "0", "2", "3", "/", "5", "/", "1">>,
     <<"2", "3", "/", "0", "5", "/", "0", "1">>,
     <<"2", "0", "2", "3", "-", "0", "5", "-", "0", "1">>,
     <<"2", "0", "2", "3", "/", "0", "5", "/", "0", "1", " ">>,
     <<"g">>,
     <<>>}

\* texts tried in the time fields
TimeTexts ==
    {<<"1", "2", ":", "0", "0", ":", "0", "0">>,
     <<"2", "3", ":", "5", "9", ":", "5", "9">>,
     <<"1", "2", ":", "0", "0", ":", "0", "0", ".", "0", "0", "0">>,
     <<"1", "2", ":", "0", "0", ":", "0", "0", ".", "5">>,
     <<"5", ":", "0", "4", ":", "0", "5">>,
     <<" ", "1", "2", ":", "0", "0", ":", "0", "0">>,
     <<"2", "4", ":", "0", "0", ":", "0", "0">>,
     <<"1", "2", ":", "6", "0", ":", "0", "0">>,
     <<"1", "2", ":", "0", "0", ":", "6", "0">>,
     <<"1", "2", ":", "0", "0">>,
     <<"1", "2", ":", "0", "0", ":", "0", "0", " ">>,
     <<"1", "2", ":", "0", "0", ":", "0", "0", ".">>,
     <<"1", "2", ":", "0", "0", ":", "0", "0", "z">>,
     <<"x">>,
     <<>>}

\* texts tried in the string fields
StrTexts ==
    {<<>>,
     <<"A">>,
     <<" ", "A", " ">>,
     <<"a", " ", "b">>,
     <<"\t", "A">>,
     <<"A", "\f">>,
     <<"U+00A0", "A", "U+3000">>,
     <<"U+000B", "A", "U+0085">>,
     <<"U+200B", "A">>}

\* texts tried as the first field
FirstTexts ==
    {<<"M", "S", "G">>,
     <<"M", "S", "G", " ">>,
     <<" ", "M", "S", "G">>,
     <<"m", "s", "g">>,
     <<"M", "S", "G", "X">>,
     <<"M", "S">>,
     <<"S", "T", "A">>,
     <<>>}

---------------------------------------------------------------------------
(* strconv.Atoi and the conversion int -> int32 *)

LimbBase == 65536
HalfLimb == 32768

ZeroMag == <<0, 0, 0, 0>>

\* mag * m + d over four limbs, for m and d up to 10^4; over is TRUE when
\* the result leaves 64 bits
MulAdd(mag, m, d) ==
    LET t0 == mag[1] * m + d
        t1 == mag[2] * m + t0 \div LimbBase
        t2 == mag[3] * m + t1 \div LimbBase
        t3 == mag[4] * m + t2 \div LimbBase
    IN [mag |-> <<t0 % LimbBase, t1 % LimbBase, t2 % LimbBase, t3 % LimbBase>>,
        over |-> t3 \div LimbBase # 0]

\* the unsigned value of the first n digits of a run, as ParseUint
\* accumulates it, taken four digits at a time
RECURSIVE Accumulate(_, _)
Accumulate(ds, n) ==
    IF n = 0 THEN [mag |-> ZeroMag, over |-> FALSE]
    ELSE LET k == IF n < 4 THEN n ELSE 4
             prev == Accumulate(ds, n - k)
             step == MulAdd(prev.mag, 10^k, DigitsValue(SubSeq(ds, n - k + 1, n), 0))
         IN [mag |-> step.mag, over |-> prev.over \/ step.over]

\* mag is exactly 2^(bits-1), the magnitude of the smallest int of that size
IsMinMag(mag, bits) ==
    IF bits = 64 THEN mag = <<0, 0, 0, HalfLimb>> ELSE mag = <<0, HalfLimb, 0, 0>>

\* mag < 2^(bits-1)
BelowHalf(mag, bits) ==
    IF bits = 64 THEN mag[4] < HalfLimb
    ELSE mag[4] = 0 /\ mag[3] = 0 /\ mag[2] < HalfLimb

\* strconv.Atoi(s) for an int of `bits` bits: [ok, neg, mag]; ok = FALSE is err # nil
Atoi(s, bits) ==
    LET signed == s # <<>> /\ Head(s) \in {"+", "-"}
        neg == s # <<>> /\ Head(s) = "-"
        ds == IF signed THEN Tail(s) ELSE s
        syntax == ds # <<>> /\ \A i \in 1..Len(ds) : IsDigit(ds[i])
        acc == Accumulate(ds, Len(ds))
        inRange == ~acc.over /\ (BelowHalf(acc.mag, bits) \/ (neg /\ IsMinMag(acc.mag, bits)))
    IN IF syntax /\ inRange
       THEN [ok |-> TRUE, neg |-> neg /\ acc.mag # ZeroMag, mag |-> acc.mag]
       ELSE [ok |-> FALSE, neg |-> FALSE, mag |-> ZeroMag]

\* the low 32 bits of the two's complement form of an int, as limbs <<lo, hi>>
Low32(v) ==
    IF ~v.neg THEN <<v.mag[1], v.mag[2]>>
    ELSE IF v.mag[1] = 0 THEN <<0, (LimbBase - v.mag[2]) % LimbBase>>
    ELSE <<LimbBase - v.mag[1], LimbBase - 1 - v.mag[2]>>

\* a conversion that saturates at the ends of the int32 range
Int32Of_Saturate(v) ==
    IF v.mag[3] = 0 /\ v.mag[4] = 0 /\ (v.mag[2] < HalfLimb \/ (v.neg /\ v.mag = <<0, HalfLimb, 0, 0>>))
    THEN (IF v.neg THEN -1 ELSE 1) * (v.mag[2] * (LimbBase \div 2)) * 2 + (IF v.neg THEN -1 ELSE 1) * v.mag[1]
    ELSE IF v.neg THEN -2147483647 - 1 ELSE 2147483647

\* int32(i): Go's integer conversion truncates to the low 32 bits, sign-extended
Int32Of(v) ==
    LET w == Low32(v) IN
    IF w[2] >= HalfLimb THEN (w[2] - LimbBase) * LimbBase + w[1]
    ELSE w[2] * LimbBase + w[1]

\* parseInt converts a string to int32, returning 0 on failure
parseInt(s, bits) ==
    LET r == Atoi(s, bits) IN IF r.ok THEN Int32Of(r) ELSE 0

\* a parseBool that takes every integer for true
parseBool_AnyInt(s, bits) == Atoi(s, bits).ok

\* parseBool converts a string to a bool, returning false on failure
parseBool(s, bits) ==
    LET r == Atoi(s, bits) IN IF r.ok THEN r.mag # ZeroMag ELSE FALSE

---------------------------------------------------------------------------
(* strconv.ParseFloat(s, 32) and the conversion to float32 *)

(* A float32 is kept as kind ("fin", "inf", "nan"), sign and, for a finite  *)
(* value, mant * 2^exp with mant odd and below 2^24 (0 * 2^0 for zero).     *)
(* strconv reads the text as a decimal or hexadecimal mantissa and an       *)
(* exponent and returns the float32 nearest to the number written, ties to  *)
(* the even mantissa; here that float32 is computed from the whole number.  *)

FloatZero == [kind |-> "fin", neg |-> FALSE, mant |-> 0, exp |-> 0]

Lower(c) ==
    CASE c = "I" -> "i" [] c = "N" -> "n" [] c = "F" -> "f" [] c = "T" -> "t"
      [] c = "Y" -> "y" [] c = "A" -> "a" [] OTHER -> c

RECURSIVE CommonPrefixLen(_, _)
CommonPrefixLen(s, word) ==
    IF s # <<>> /\ word # <<>> /\ Lower(Head(s)) = Head(word)
    THEN 1 + CommonPrefixLen(Tail(s), Tail(word))
    ELSE 0

\* strconv's special(): [ok, n, val], n the number of characters it consumed
Special(s) ==
    LET none == [ok |-> FALSE, n |-> 0, val |-> FloatZero] IN
    IF s = <<>> THEN none
    ELSE IF Head(s) \in {"+", "-", "i", "I"} THEN
        LET nsign == IF Head(s) \in {"+", "-"} THEN 1 ELSE 0
            body == IF nsign = 1 THEN Tail(s) ELSE s
            p == CommonPrefixLen(body, <<"i", "n", "f", "i", "n", "i", "t", "y">>)
            n == IF 3 < p /\ p < 8 THEN 3 ELSE p
        IN IF n = 3 \/ n = 8
           THEN [ok |-> TRUE, n |-> nsign + n,
                 val |-> [kind |-> "inf", neg |-> Head(s) = "-", mant |-> 0, exp |-> 0]]
           ELSE none
    ELSE IF Head(s) \in {"n", "N"} THEN
        IF CommonPrefixLen(s, <<"n", "a", "n">>) = 3
        THEN [ok |-> TRUE, n |-> 3,
              val |-> [kind |-> "nan", neg |-> FALSE, mant |-> 0, exp |-> 0]]
        ELSE none
    ELSE none

HexLetters == {"a", "b", "c", "d", "e", "f", "A", "B", "C", "D", "E", "F"}

HexVal(c) ==
    CASE c \in {"a", "A"} -> 10 [] c \in {"b", "B"} -> 11 [] c \in {"c", "C"} -> 12
      [] c \in {"d", "D"} -> 13 [] c \in {"e", "E"} -> 14 [] c \in {"f", "F"} -> 15

\* strconv's lower(c) = c | 0x20, on the letters readFloat looks for
LowerAscii(c) ==
    CASE c = "E" -> "e" [] c = "P" -> "p" [] c = "X" -> "x"
      [] c = "B" -> "b" [] c = "O" -> "o" [] OTHER -> c

\* a digit of the mantissa in that base
IsMantissaDigit(c, base) == IsDigit(c) \/ (base = 16 /\ c \in HexLetters)

MantissaVal(c) == IF IsDigit(c) THEN DigitVal(c) ELSE HexVal(c)

\* the least member of a set of integers
Least(S) == CHOOSE j \in S : \A k \in S : j <= k

\* where readFloat's loop over the mantissa, begun at character i, stops: at
\* the first character that is no digit of the base, underscore or point, or
\* at a second point (Len(s) + 1 when it reads to the end)
MantissaEnd(s, i, base) ==
    LET stops == {j \in i..Len(s) :
                    \/ ~(IsMantissaDigit(s[j], base) \/ s[j] \in {"_", "."})
                    \/ (s[j] = "." /\ \E k \in i..(j - 1) : s[k] = ".")}
    IN IF stops = {} THEN Len(s) + 1 ELSE Least(stops)

\* readFloat's loop over the mantissa, from character i on, by what it
\* leaves: underscores are passed over, a "0" before the first other digit
\* is dropped (dp--, which counts when the point has been seen), every digit
\* from there on is kept in mant (nd of them, most significant first), and
\* dp is nd as it was at the point, less the zeros dropped after the point
ScanMantissa(s, base, i) ==
    LET end == MantissaEnd(s, i, base)
        dots == {j \in i..(end - 1) : s[j] = "."}
        dot == IF dots = {} THEN end ELSE Least(dots)
        digitsAt == {j \in i..(end - 1) : IsMantissaDigit(s[j], base)}
        nonzero == {j \in digitsAt : s[j] # "0"}
        first == IF nonzero = {} THEN end ELSE Least(nonzero)
        IsKept(c) == IsMantissaDigit(c, base)
        kept == SelectSeq(SubSeq(s, first, end - 1), IsKept)
        nd == Len(kept)
        ndAtDot == Cardinality({j \in digitsAt : first <= j /\ j < dot})
        dropped == Cardinality({j \in digitsAt : dot < j /\ j < first})
    IN [i |-> end, sawdot |-> dots # {}, sawdigits |-> digitsAt # {}, nd |-> nd,
        dp |-> IF dots = {} THEN nd ELSE ndAtDot - dropped,
        mant |-> [k \in 1..nd |-> MantissaVal(kept[k])],
        underscores |-> \E j \in i..(end - 1) : s[j] = "_"]

\* readFloat's loop over the digits of the exponent
RECURSIVE ScanExponent(_, _)
ScanExponent(s, st) ==
    IF st.i <= Len(s) /\ (IsDigit(s[st.i]) \/ s[st.i] = "_")
    THEN ScanExponent(s,
             IF s[st.i] = "_"
             THEN [st EXCEPT !.i = @ + 1, !.underscores = TRUE]
             ELSE [st EXCEPT !.i = @ + 1,
                             !.e = IF @ < 10000 THEN @ * 10 + DigitVal(s[st.i]) ELSE @])
    ELSE st

RECURSIVE UnderscoreScan(_, _, _, _)
UnderscoreScan(s, i, hex, saw) ==
    IF i > Len(s) THEN saw # "_"
    ELSE IF IsDigit(s[i]) \/ (hex /\ s[i] \in HexLetters)
    THEN UnderscoreScan(s, i + 1, hex, "0")
    ELSE IF s[i] = "_"
    THEN saw = "0" /\ UnderscoreScan(s, i + 1, hex, "_")
    ELSE saw # "_" /\ UnderscoreScan(s, i + 1, hex, "!")

\* strconv's underscoreOK: underscores only between digits, or after a base prefix
UnderscoreOK(s) ==
    LET t == IF s # <<>> /\ Head(s) \in {"+", "-"} THEN Tail(s) ELSE s
        prefixed == Len(t) >= 2 /\ t[1] = "0" /\ LowerAscii(t[2]) \in {"b", "o", "x"}
    IN UnderscoreScan(t, IF prefixed THEN 3 ELSE 1,
                      prefixed /\ LowerAscii(t[2]) = "x",
                      IF prefixed THEN "0" ELSE "^")

\* what readFloat gives for a text it does not take
NoFloat == [ok |-> FALSE, neg |-> FALSE, hex |-> FALSE, mant |-> <<>>, exp |-> 0, n |-> 0]

\* readFloat from the end of the mantissa m on: the exponent, which a
\* hexadecimal mantissa must have, and the test of the underscores
ReadExponent(s, hex, m) ==
    LET dp0 == IF m.sawdot THEN m.dp ELSE m.nd
        dp1 == IF hex THEN 4 * dp0 ELSE dp0
        ndMant == IF hex THEN 4 * m.nd ELSE m.nd
        hasExp == m.i <= Len(s) /\ LowerAscii(s[m.i]) = (IF hex THEN "p" ELSE "e")
        j == m.i + 1
        esigned == j <= Len(s) /\ s[j] \in {"+", "-"}
        j1 == IF esigned THEN j + 1 ELSE j
        expOk == j1 <= Len(s) /\ IsDigit(s[j1])
        x == ScanExponent(s, [i |-> j1, e |-> 0, underscores |-> m.underscores])
        esign == IF esigned /\ s[j] = "-" THEN -1 ELSE 1
        n == IF hasExp THEN x.i - 1 ELSE m.i - 1
    IN IF ~m.sawdigits THEN NoFloat
       ELSE IF hasExp /\ ~expOk THEN NoFloat
       ELSE IF ~hasExp /\ hex THEN NoFloat
       ELSE IF (IF hasExp THEN x.underscores ELSE m.underscores)
               /\ ~UnderscoreOK(SubSeq(s, 1, n)) THEN NoFloat
       ELSE [ok |-> TRUE, neg |-> Head(s) = "-", hex |-> hex, mant |-> m.mant,
             exp |-> IF m.mant = <<>> THEN 0
                     ELSE (IF hasExp THEN dp1 + x.e * esign ELSE dp1) - ndMant,
             n |-> n]

\* strconv's readFloat: [ok, neg, hex, mant, exp, n]; the number read is
\* mant * 10^exp, or mant * 2^exp when hex, and n characters were consumed
ReadFloat(s) ==
    LET i0 == IF s # <<>> /\ Head(s) \in {"+", "-"} THEN 2 ELSE 1
        hex == i0 + 2 <= Len(s) /\ s[i0] = "0" /\ LowerAscii(s[i0 + 1]) = "x"
    IN IF s = <<>> THEN NoFloat
       ELSE ReadExponent(s, hex, ScanMantissa(s, IF hex THEN 16 ELSE 10,
                                                 IF hex THEN i0 + 2 ELSE i0))

(* The number written is kept whole, as a sequence of limbs below 2^15,     *)
(* least significant first, without leading zeros (<<>> is 0).  A carry or  *)
(* a borrow enters a limb when the nearest limb below that does not pass    *)
(* one on makes one.                                                        *)

BigBase == 32768

Pow2(n) == 2^n

Pow10(n) == 10^n

\* the limb of a at place i
Limb(a, i) == IF 1 <= i /\ i <= Len(a) THEN a[i] ELSE 0

\* a without its leading zero limbs
StripZeros(a) ==
    LET nz == {i \in 1..Len(a) : a[i] # 0}
    IN IF nz = {} THEN <<>> ELSE SubSeq(a, 1, CHOOSE i \in nz : \A j \in nz : j <= i)

\* a + b
BigAdd(a, b) ==
    LET n == (IF Len(a) > Len(b) THEN Len(a) ELSE Len(b)) + 1
        sum(i) == Limb(a, i) + Limb(b, i)
        carry(i) == IF \E j \in 1..(i - 1) :
                          sum(j) >= BigBase /\ \A k \in (j + 1)..(i - 1) : sum(k) = BigBase - 1
                    THEN 1 ELSE 0
    IN StripZeros([i \in 1..n |-> (sum(i) + carry(i)) % BigBase])

\* a - b for a >= b
BigSub(a, b) ==
    LET diff(i) == Limb(a, i) - Limb(b, i)
        borrow(i) == IF \E j \in 1..(i - 1) :
                           diff(j) < 0 /\ \A k \in (j + 1)..(i - 1) : diff(k) = 0
                     THEN 1 ELSE 0
    IN StripZeros([i \in 1..Len(a) |-> (diff(i) - borrow(i) + BigBase) % BigBase])

\* a * m + c for 0 <= m < 2^15 and 0 <= c < 2^15: the low limbs of the
\* products, and their high limbs one place up
BigScale(a, m, c) ==
    IF a = <<>> THEN (IF c = 0 THEN <<>> ELSE <<c>>)
    ELSE LET prod == [i \in 1..Len(a) |-> a[i] * m + (IF i = 1 THEN c ELSE 0)]
         IN BigAdd([i \in 1..Len(a) |-> prod[i] % BigBase],
                   <<0>> \o [i \in 1..Len(a) |-> prod[i] \div BigBase])

\* a * 2^n: whole limbs, and the n % 15 bits that move across the limbs
BigMulPow2(a, n) ==
    IF a = <<>> THEN a
    ELSE LET m == Pow2(n % 15)
         IN [i \in 1..(n \div 15) |-> 0]
            \o StripZeros([i \in 1..(Len(a) + 1) |->
                              ((Limb(a, i) * m) % BigBase) + ((Limb(a, i - 1) * m) \div BigBase)])

\* a * 10^k, by halves of k down to 10^4
RECURSIVE BigMulPow10(_, _)
BigMulPow10(a, k) ==
    IF a = <<>> \/ k = 0 THEN a
    ELSE IF k <= 4 THEN BigScale(a, Pow10(k), 0)
    ELSE BigMulPow10(BigMulPow10(a, k \div 2), k - k \div 2)

\* a < b
BigLess(a, b) ==
    IF Len(a) # Len(b) THEN Len(a) < Len(b)
    ELSE \E i \in 1..Len(a) :
            a[i] < b[i] /\ \A j \in (i + 1)..Len(a) : a[j] = b[j]

\* the number a run of digit values writes in that base (10 or 16), taken
\* three digits at a time
RECURSIVE BigOfRun(_, _)
BigOfRun(ds, base) ==
    IF ds = <<>> THEN <<>>
    ELSE LET n == Len(ds)
             k == IF n < 3 THEN n ELSE 3
             low == IF k = 1 THEN ds[n]
                    ELSE IF k = 2 THEN ds[n - 1] * base + ds[n]
                    ELSE (ds[n - 2] * base + ds[n - 1]) * base + ds[n]
         IN BigScale(BigOfRun(SubSeq(ds, 1, n - k), base), base^k, low)

\* the number of bits of a > 0
BitLen(a) ==
    15 * (Len(a) - 1) + (CHOOSE k \in 1..15 : Pow2(k - 1) <= a[Len(a)] /\ a[Len(a)] < Pow2(k))

\* the integer part of the binary logarithm of a / b: one of the two values
\* the lengths of a and b leave
FloorLog2(a, b) ==
    LET l == BitLen(a) - BitLen(b)
    IN IF l >= 0 THEN (IF BigLess(a, BigMulPow2(b, l)) THEN l - 1 ELSE l)
       ELSE (IF BigLess(BigMulPow2(a, -l), b) THEN l - 1 ELSE l)

\* long division of r by den in base 16, for a quotient below 16^(k + 1),
\* from the digit at place k down, q being the digits found so far: [q, r];
\* each digit is the number of multiples of den, at its place, that r holds
RECURSIVE LongDiv(_, _, _, _)
LongDiv(r, den, k, q) ==
    IF k < 0 THEN [q |-> q, r |-> r]
    ELSE LET d == BigMulPow2(den, 4 * k)
             c == Cardinality({j \in 1..15 : ~BigLess(r, BigScale(d, j, 0))})
         IN IF c = 0 THEN LongDiv(r, den, k - 1, q)
            ELSE LongDiv(BigSub(r, BigScale(d, c, 0)), den, k - 1, q + c * 16^k)

\* q * 2^e with q odd
OddForm(q, e) ==
    IF q = 0 THEN [mant |-> 0, exp |-> 0]
    ELSE LET k == CHOOSE k \in 0..24 : q % 2^k = 0 /\ q % 2^(k + 1) # 0
         IN [mant |-> q \div 2^k, exp |-> e + k]

\* the quotient d.q of a division by den rounded by its remainder d.r, ties
\* to the even quotient, as the mantissa of a float32 with the exponent e:
\* [over, mant, exp]
RoundQuotient(d, den, e) ==
    LET twice == BigScale(d.r, 2, 0)
        up == BigLess(den, twice) \/ (twice = den /\ d.q % 2 = 1)
        q == IF up THEN d.q + 1 ELSE d.q
    IN [over |-> e > 104 \/ (e = 104 /\ q = 16777216),
        mant |-> OddForm(q, e).mant, exp |-> OddForm(q, e).exp]

\* a / b in units of 2^e, rounded
RoundScaled(a, b, e) ==
    LET den == IF e > 0 THEN BigMulPow2(b, e) ELSE b
    IN RoundQuotient(LongDiv(IF e < 0 THEN BigMulPow2(a, -e) ELSE a, den, 5, 0), den, e)

\* the float32 nearest to a / b (ties to even) for a, b > 0: [over, mant, exp],
\* over when it is beyond MaxFloat32; 24 bits of mantissa, exponents from
\* -149 (the subnormals) to 104
RoundRatio(a, b) ==
    LET log2 == FloorLog2(a, b)
    IN RoundScaled(a, b, IF log2 - 23 < -149 THEN -149 ELSE log2 - 23)

\* the float32 nearest to n * 10^p10 * 2^p2; a number plainly beyond the
\* float32 range, or plainly below half the least subnormal, is not computed
\* (2^3 < 10 < 2^4)
Round32(n, p10, p2) ==
    LET least == BitLen(n) - 1 + p2 + (IF p10 >= 0 THEN 3 * p10 ELSE 4 * p10)
        most == BitLen(n) + p2 + (IF p10 >= 0 THEN 4 * p10 ELSE 3 * p10)
    IN IF n = <<>> THEN [over |-> FALSE, mant |-> 0, exp |-> 0]
       ELSE IF least >= 128 THEN [over |-> TRUE, mant |-> 0, exp |-> 0]
       ELSE IF most <= -150 THEN [over |-> FALSE, mant |-> 0, exp |-> 0]
       ELSE RoundRatio(
                BigMulPow2(BigMulPow10(n, IF p10 > 0 THEN p10 ELSE 0),
                           IF p2 > 0 THEN p2 ELSE 0),
                BigMulPow2(BigMulPow10(<<1>>, IF p10 < 0 THEN -p10 ELSE 0),
                           IF p2 < 0 THEN -p2 ELSE 0))

\* the float32 of the sign neg and the rounded magnitude r, or the range error
Float32Of(neg, r) ==
    IF r.over
    THEN [ok |-> FALSE, val |-> [kind |-> "inf", neg |-> neg, mant |-> 0, exp |-> 0]]
    ELSE [ok |-> TRUE, val |-> [kind |-> "fin", neg |-> neg, mant |-> r.mant, exp |-> r.exp]]

\* ParseFloat on what readFloat gave for s: a syntax error unless it took all of s
ParseRead(s, rf) ==
    IF ~rf.ok \/ rf.n # Len(s) THEN [ok |-> FALSE, val |-> FloatZero]
    ELSE Float32Of(rf.neg, Round32(BigOfRun(rf.mant, IF rf.hex THEN 16 ELSE 10),
                                   IF rf.hex THEN 0 ELSE rf.exp,
                                   IF rf.hex THEN rf.exp ELSE 0))

\* strconv.ParseFloat(s, 32): [ok, val]; ok = FALSE is err # nil, a syntax
\* error with the value 0 or a range error with an infinite value
ParseFloat(s) ==
    LET sp == Special(s)
    IN IF sp.ok THEN (IF sp.n = Len(s) THEN [ok |-> TRUE, val |-> sp.val]
                      ELSE [ok |-> FALSE, val |-> FloatZero])
       ELSE ParseRead(s, ReadFloat(s))

\* the texts the float fields of the feeds read
FloatFieldTexts ==
    FloatTexts
    \cup {b[k] : b \in {GoodFields, BadFields, NanFields, OtherFields}, k \in 13..16}

\* ParseFloat of each of them, converted once
ParseFloatTable == {<<t, ParseFloat(t)>> : t \in FloatFieldTexts}

\* strconv.ParseFloat(s, 32), taken from the table for a text that is in it
ParseFloatOf(s) ==
    IF s \in FloatFieldTexts THEN (CHOOSE p \in ParseFloatTable : p[1] = s)[2]
    ELSE ParseFloat(s)

\* parseFloat converts a string to float32, returning 0.0 on failure
parseFloat(s) ==
    LET r == ParseFloatOf(s) IN IF r.ok THEN r.val ELSE FloatZero

---------------------------------------------------------------------------
(* time.Parse("2006/01/02 15:04:05", ...) *)

NilTime == [valid |-> FALSE, year |-> 0, month |-> 0, day |-> 0,
            hour |-> 0, min |-> 0, sec |-> 0, nsec |-> 0]

\* time's getnum: one or two digits, exactly two when fixed
GetNum(s, fixed) ==
    IF ~(Len(s) >= 1 /\ IsDigit(s[1])) THEN [ok |-> FALSE, n |-> 0, rest |-> s]
    ELSE IF ~(Len(s) >= 2 /\ IsDigit(s[2]))
    THEN (IF fixed THEN [ok |-> FALSE, n |-> 0, rest |-> s]
          ELSE [ok |-> TRUE, n |-> DigitVal(s[1]), rest |-> Tail(s)])
    ELSE [ok |-> TRUE, n |-> DigitVal(s[1]) * 10 + DigitVal(s[2]),
          rest |-> SubSeq(s, 3, Len(s))]

\* time's skip for a one-character literal of the layout other than a space
SkipChar(s, c) ==
    IF s # <<>> /\ Head(s) = c THEN [ok |-> TRUE, rest |-> Tail(s)]
    ELSE [ok |-> FALSE, rest |-> s]

RECURSIVE CutSpace(_)
CutSpace(s) == IF s # <<>> /\ Head(s) = " " THEN CutSpace(Tail(s)) ELSE s

\* time's skip for the layout's space: it stands for any run of spaces
SkipSpace(s) ==
    IF s # <<>> /\ Head(s) # " " THEN [ok |-> FALSE, rest |-> s]
    ELSE [ok |-> TRUE, rest |-> CutSpace(s)]

\* the length of the fractional second at the head of s ("." or "," and digits), or 0
RECURSIVE DigitRun(_, _)
DigitRun(s, i) == IF i <= Len(s) /\ IsDigit(s[i]) THEN DigitRun(s, i + 1) ELSE i - 1

FracLen(s) ==
    IF Len(s) >= 2 /\ s[1] \in {".", ","} /\ IsDigit(s[2]) THEN DigitRun(s, 2) ELSE 0

\* time's parseNanoseconds on the first nbytes characters of s
ParseNanoseconds(s, nbytes) ==
    LET nb == IF nbytes > 10 THEN 10 ELSE nbytes
    IN DigitsValue(SubSeq(s, 2, nb), 0) * Pow10(10 - nb)

IsLeap(year) == year % 4 = 0 /\ (year % 100 # 0 \/ year % 400 = 0)

DaysIn(month, year) ==
    IF month = 2 THEN (IF IsLeap(year) THEN 29 ELSE 28)
    ELSE IF month \in {4, 6, 9, 11} THEN 30 ELSE 31

\* time.Parse with the layout 2006/01/02 15:04:05; NilTime is err # nil
TimeParse(value) ==
    LET yearOk == Len(value) >= 4 /\ \A i \in 1..4 : IsDigit(value[i])
        year == DigitsValue(SubSeq(value, 1, 4), 0)
        s1 == SkipChar(SubSeq(value, 5, Len(value)), "/")
        mo == GetNum(s1.rest, TRUE)
        s2 == SkipChar(mo.rest, "/")
        dy == GetNum(s2.rest, TRUE)
        s3 == SkipSpace(dy.rest)
        hr == GetNum(s3.rest, FALSE)
        s4 == SkipChar(hr.rest, ":")
        mi == GetNum(s4.rest, TRUE)
        s5 == SkipChar(mi.rest, ":")
        sc == GetNum(s5.rest, TRUE)
        fl == FracLen(sc.rest)
        rest == SubSeq(sc.rest, fl + 1, Len(sc.rest))
        nsec == IF fl = 0 THEN 0 ELSE ParseNanoseconds(sc.rest, fl)
    IN IF /\ yearOk
          /\ s1.ok /\ mo.ok /\ mo.n >= 1 /\ mo.n <= 12
          /\ s2.ok /\ dy.ok
          /\ s3.ok /\ hr.ok /\ hr.n < 24
          /\ s4.ok /\ mi.ok /\ mi.n < 60
          /\ s5.ok /\ sc.ok /\ sc.n < 60
          /\ rest = <<>>
          /\ dy.n >= 1 /\ dy.n <= DaysIn(mo.n, year)
       THEN [valid |-> TRUE, year |-> year, month |-> mo.n, day |-> dy.n,
             hour |-> hr.n, min |-> mi.n, sec |-> sc.n, nsec |-> nsec]
       ELSE NilTime

\* parseDateTime converts date and time strings into a time.Time pointer (NilTime is nil)
parseDateTime(date, timeStr) == TimeParse(date \o <<" ">> \o timeStr)

---------------------------------------------------------------------------
(* SBS1Message, NewSBS1Message, Parse *)

\* strconv.FormatInt(n, 10) for n >= 0
DigitChar(d) == <<"0", "1", "2", "3", "4", "5", "6", "7", "8", "9">>[d + 1]

RECURSIVE FormatInt(_)
FormatInt(n) ==
    IF n < 10 THEN <<DigitChar(n)>> ELSE FormatInt(n \div 10) \o <<DigitChar(n % 10)>>

\* NewSBS1Message: the zero SBS1Message with the current time as its Timestamp
NewSBS1Message(now) ==
    [Timestamp |-> FormatInt(now), MessageType |-> <<>>, TransmissionType |-> 0,
     SessionID |-> <<>>, AircraftID |-> <<>>, Icao24 |-> <<>>, FlightID |-> <<>>,
     GeneratedDate |-> NilTime, LoggedDate |-> NilTime, Callsign |-> <<>>,
     Altitude |-> 0, GroundSpeed |-> FloatZero, Track |-> FloatZero,
     Lat |-> FloatZero, Lon |-> FloatZero, VerticalRate |-> 0, Squawk |-> 0,
     Alert |-> FALSE, Emergency |-> FALSE, Spi |-> FALSE, OnGround |-> FALSE]

\* the number of fields a line needs
MinFields == 22

\* the structural test with <= for <
Structural_OffByOne(parts) == ~(Len(parts) <= MinFields \/ parts[1] # <<"M", "S", "G">>)

\* the structural test of Parse on the split line
Structural(parts) == ~(Len(parts) < MinFields \/ parts[1] # <<"M", "S", "G">>)

\* the field assignments of Parse; parts[k + 1] is Go's parts[k]
Decode(sbs1, parts, bits) ==
    [sbs1 EXCEPT
        !.MessageType = <<"M", "S", "G">>,
        !.TransmissionType = parseInt(parts[2], bits),
        !.SessionID = parts[3],
        !.AircraftID = parts[4],
        !.Icao24 = parts[5],
        !.FlightID = parts[6],
        !.GeneratedDate = parseDateTime(parts[7], parts[8]),
        !.LoggedDate = parseDateTime(parts[9], parts[10]),
        !.Callsign = TrimSpace(parts[11]),
        !.Altitude = parseInt(parts[12], bits),
        !.GroundSpeed = parseFloat(parts[13]),
        !.Track = parseFloat(parts[14]),
        !.Lat = parseFloat(parts[15]),
        !.Lon = parseFloat(parts[16]),
        !.VerticalRate = parseInt(parts[17], bits),
        !.Squawk = parseInt(parts[18], bits),
        !.Alert = parseBool(parts[19], bits),
        !.Emergency = parseBool(parts[20], bits),
        !.Spi = parseBool(parts[21], bits),
        !.OnGround = parseBool(parts[22], bits)]

\* Parse(msg) at time now, on a platform whose int has `bits` bits: [rec, ok]
Parse(msg, now, bits) ==
    LET sbs1 == NewSBS1Message(now)
        parts == Split(TrimSpace(msg), ",")
    IN IF Structural(parts)
       THEN [rec |-> Decode(sbs1, parts, bits), ok |-> TRUE]
       ELSE [rec |-> sbs1, ok |-> FALSE]

---------------------------------------------------------------------------
(* sendToService *)

FloatFields(m) == {m.GroundSpeed, m.Track, m.Lat, m.Lon}

\* json.Marshal refuses a NaN or an infinite float
MarshalFails(messages) ==
    \E i \in 1..Len(messages) : \E f \in FloatFields(messages[i]) : f.kind # "fin"

\* the events of the payload: one per message, in the order of the slice
Events(messages) ==
    [i \in 1..Len(messages) |->
        [parser |-> "adsb", ts |-> messages[i].Timestamp, sev |-> 3,
         attrs |-> [message |-> messages[i], source |-> "dump1090-fa",
                    collector |-> "imichaelmoore/adsb-go-dataset", parser |-> "adsb"]]]

\* how a call of sendToService can end: "ok" is a nil error (whatever the
\* HTTP status), "marshal" the error of json.Marshal, "request" that of client.Do
SendResults(messages) ==
    IF MarshalFails(messages) THEN {"marshal"} ELSE {"ok", "request"}

---------------------------------------------------------------------------
(* The lines the connection delivers.  A line is given by its fields and    *)
(* the white space around it; the text bufio.Scanner hands to the loop is   *)
(* the fields joined by commas, between the two margins.                    *)

RECURSIVE Join(_, _)
Join(fields, sep) ==
    IF fields = <<>> THEN <<>>
    ELSE IF Len(fields) = 1 THEN fields[1]
    ELSE LET h == Len(fields) \div 2
         IN Join(SubSeq(fields, 1, h), sep) \o sep
            \o Join(SubSeq(fields, h + 1, Len(fields)), sep)

\* no integer is named as the source of a field
NoTag == [k |-> 0, neg |-> FALSE, digits |-> <<>>, r |-> 0]

Line(fields, lead, trail) ==
    [fields |-> fields, lead |-> lead, trail |-> trail, tag |-> NoTag]

\* scanner.Text() for a line
Encode(in) == in.lead \o Join(in.fields, <<",">>) \o in.trail

\* the texts tried at field k (1-based: Go's parts[k - 1])
TextsFor(k) ==
    IF k \in {2, 12, 17, 18} THEN SmallIntTexts
    ELSE IF k \in 13..16 THEN FloatTexts
    ELSE IF k \in 19..22 THEN BoolTexts
    ELSE IF k \in {7, 9} THEN DateTexts
    ELSE IF k \in {8, 10} THEN TimeTexts
    ELSE StrTexts

\* the lines of an ordinary feed
PlainFeed ==
    {Line(GoodFields, <<>>, <<>>), Line(NanFields, <<>>, <<>>),
     Line(OtherFields, <<>>, <<>>), Line(ShortFields, <<>>, <<>>)}

\* one field of a report replaced by each text tried there
FieldVariants ==
    UNION {UNION {{Line([b EXCEPT ![k] = t], <<>>, <<>>) : t \in TextsFor(k)}
                  : k \in 2..22}
           : b \in {GoodFields, BadFields}}

\* a date and its time replaced together
PairVariants ==
    UNION {{Line([GoodFields EXCEPT ![k] = d, ![k + 1] = t], <<>>, <<>>)
              : d \in DateTexts, t \in TimeTexts}
           : k \in {7, 9}}

\* white space around the line
Margins ==
    {<<<<>>, <<>>>>, <<<<" ">>, <<>>>>, <<<<>>, <<" ">>>>, <<<<"\t", " ">>, <<" ", "\t">>>>,
     <<<<"\f">>, <<"U+000B">>>>, <<<<"U+00A0", " ">>, <<"U+0085", "U+3000">>>>,
     <<<<"U+200B">>, <<>>>>}

\* reports of every length from one field to MaxExtra fields too many, under
\* every first field and margin
StructVariants ==
    {Line([SubSeq(GoodFields \o [i \in 1..MaxExtra |-> <<"9">>], 1, n) EXCEPT ![1] = f],
          m[1], m[2])
       : n \in 1..(MinFields + MaxExtra), f \in FirstTexts, m \in Margins}

---------------------------------------------------------------------------
(* Integers beyond 32 bits, written in decimal: v = m + r with m zero or    *)
(* plus or minus a power of two from 2^32 on, and r an int32.  A decimal is *)
(* a sequence of groups of four digits (values below 10^4), least           *)
(* significant first, without leading zero groups.                          *)

DecBase == 10^4

RECURSIVE DecAdd(_, _, _)
DecAdd(a, b, carry) ==
    IF a = <<>> /\ b = <<>> THEN (IF carry = 0 THEN <<>> ELSE <<carry>>)
    ELSE LET x == IF a = <<>> THEN 0 ELSE Head(a)
             y == IF b = <<>> THEN 0 ELSE Head(b)
             t == x + y + carry
         IN <<t % DecBase>> \o DecAdd(IF a = <<>> THEN a ELSE Tail(a),
                                      IF b = <<>> THEN b ELSE Tail(b), t \div DecBase)

\* a - b for a >= b
RECURSIVE DecSubRaw(_, _, _)
DecSubRaw(a, b, borrow) ==
    IF a = <<>> THEN <<>>
    ELSE LET y == IF b = <<>> THEN 0 ELSE Head(b)
             t == Head(a) - y - borrow
         IN <<(t + DecBase) % DecBase>>
            \o DecSubRaw(Tail(a), IF b = <<>> THEN b ELSE Tail(b),
                         IF t < 0 THEN 1 ELSE 0)

DecSub(a, b) == StripZeros(DecSubRaw(a, b, 0))

\* a < b
DecLess(a, b) ==
    IF Len(a) # Len(b) THEN Len(a) < Len(b)
    ELSE \E i \in 1..Len(a) :
            a[i] < b[i] /\ \A j \in (i + 1)..Len(a) : a[j] = b[j]

RECURSIVE DecOfNat(_)
DecOfNat(n) == IF n = 0 THEN <<>> ELSE <<n % DecBase>> \o DecOfNat(n \div DecBase)

\* a * d for one group d
RECURSIVE DecScale(_, _, _)
DecScale(a, d, carry) ==
    IF a = <<>> THEN (IF carry = 0 THEN <<>> ELSE <<carry>>)
    ELSE LET t == Head(a) * d + carry
         IN <<t % DecBase>> \o DecScale(Tail(a), d, t \div DecBase)

RECURSIVE DecMulRaw(_, _)
DecMulRaw(a, b) ==
    IF b = <<>> THEN <<>>
    ELSE DecAdd(DecScale(a, Head(b), 0), <<0>> \o DecMulRaw(a, Tail(b)), 0)

DecMul(a, b) == StripZeros(DecMulRaw(a, b))

\* 2^n
RECURSIVE DecPow2(_)
DecPow2(n) ==
    IF n <= 16 THEN DecOfNat(Pow2(n))
    ELSE DecMul(DecPow2(n \div 2), DecPow2(n - n \div 2))

\* |r| for an int32 r
DecAbs(r) == IF r >= 0 THEN DecOfNat(r) ELSE DecAdd(DecOfNat(-(r + 1)), <<1>>, 0)

\* the four digits of a group
GroupText(g) ==
    <<DigitChar(g \div 1000), DigitChar((g \div 100) % 10),
      DigitChar((g \div 10) % 10), DigitChar(g % 10)>>

RECURSIVE GroupsText(_)
GroupsText(a) ==
    IF a = <<>> THEN <<>> ELSE GroupsText(Tail(a)) \o GroupText(Head(a))

\* the decimal text of a magnitude, most significant digit first (<<>> for zero)
DecText(a) ==
    LET t == GroupsText(a)
        nz == {i \in 1..Len(t) : t[i] # "0"}
    IN IF nz = {} THEN <<>> ELSE SubSeq(t, Least(nz), Len(t))

MinInt32 == -2147483647 - 1
MaxInt32 == 2147483647

\* the exponents of the powers of two tried as m
WrapExponents == {32, 33, 62, 63, 64}

\* the int32 values tried as r
WrapResidues == {MinInt32, MinInt32 + 1, -1, 0, 1, 35000, MaxInt32}

\* [neg, digits, r] for v = m + r, m = 0
WrapNear ==
    {[neg |-> r < 0, digits |-> DecAbs(r), r |-> r] : r \in WrapResidues}

\* [neg, digits, r] for v = m + r, m = 2^e or -(2^e)
WrapFar ==
    {[neg |-> mneg,
      digits |-> IF mneg = (r < 0) THEN DecAdd(DecPow2(e), DecAbs(r), 0)
                 ELSE DecSub(DecPow2(e), DecAbs(r)),
      r |-> r] : mneg \in BOOLEAN, e \in WrapExponents, r \in WrapResidues}

\* the ways an integer is written: plainly, with a sign, with leading zeros
WrapText(c, form) ==
    (IF c.neg THEN <<"-">> ELSE IF form = "plus" THEN <<"+">> ELSE <<>>)
    \o (IF form = "zeros" THEN <<"0", "0">> ELSE <<>>)
    \o (IF c.digits = <<>> THEN <<"0">> ELSE DecText(c.digits))

\* the integer fields of a report (1-based)
IntFieldsAt == {2, 12, 17, 18}

\* an integer field of a report replaced by each such integer
WrapVariants ==
    {[fields |-> [GoodFields EXCEPT ![k] = WrapText(c, form)],
      lead |-> <<>>, trail |-> <<>>,
      tag |-> [k |-> k, neg |-> c.neg, digits |-> c.digits, r |-> c.r]]
       : k \in IntFieldsAt, c \in WrapNear \cup WrapFar,
         form \in {"plain", "plus", "zeros"}}

RichFeed == FieldVariants \cup PairVariants \cup StructVariants \cup WrapVariants

\* the first line of a test of Parse: a plain report
SeedFeed == {Line(GoodFields, <<>>, <<>>)}

Feed(kind) ==
    IF kind = "plain" THEN PlainFeed
    ELSE IF kind = "seed" THEN SeedFeed
    ELSE RichFeed

---------------------------------------------------------------------------
(* The program: initializeConfiguration, runApp *)

VARIABLES
    pc,                       \* "start", "dial", "read", "done"
    DATASET_API_WRITE_TOKEN,  \* the configured token, "" when not set
    DUMP1090_HOST,            \* the configured host, "" when not set
    BATCH_SIZE,
    intSize,                  \* strconv.IntSize of the build: 32 or 64
    plan,                     \* the kind of feed each line to come is drawn from
    clock,                    \* time.Now().UnixNano()
    nread,                    \* lines the scanner has returned
    msg,                      \* the line last returned by scanner.Text()
    src,                      \* the fields and margins msg was made of
    parsed,                   \* what Parse returned for msg
    messages,                 \* the slice of runApp
    sent,                     \* the calls of sendToService so far
    accepted,                 \* the records Parse has accepted so far
    streamEnd,                \* how scanner.Scan() came to return false
    fatal,                    \* log.Fatal has been called
    exitCode                  \* the exit status of the process, -1 while it runs

vars == <<pc, DATASET_API_WRITE_TOKEN, DUMP1090_HOST, BATCH_SIZE, intSize, plan,
          clock, nread, msg, src, parsed, messages, sent, accepted, streamEnd,
          fatal, exitCode>>

config == <<DATASET_API_WRITE_TOKEN, DUMP1090_HOST, BATCH_SIZE, intSize, plan>>
reader == <<clock, nread, msg, src, parsed>>

InitCommon ==
    /\ pc = "start"
    /\ DATASET_API_WRITE_TOKEN \in {"", "token"}
    /\ DUMP1090_HOST \in {"", "host"}
    /\ BATCH_SIZE \in 1..MaxBatch
    /\ clock = 100
    /\ nread = 0
    /\ msg = <<>>
    /\ src = Line(<<>>, <<>>, <<>>)
    /\ parsed = Parse(<<>>, 0, 64)
    /\ messages = <<>>
    /\ sent = <<>>
    /\ accepted = <<>>
    /\ streamEnd = "none"
    /\ fatal = FALSE
    /\ exitCode = -1

\* an ordinary feed of up to MaxLines lines
Init ==
    /\ InitCommon
    /\ intSize = 64
    /\ plan = [i \in 1..MaxLines |-> "plain"]

\* a test of Parse: one plain report, then one line of the rich feed, on
\* either kind of build
InitParse ==
    /\ InitCommon
    /\ intSize \in {32, 64}
    /\ plan = <<"seed", "rich">>

\* the Action of the cli.App: both settings are required
Configure ==
    /\ pc = "start"
    /\ IF DATASET_API_WRITE_TOKEN = "" \/ DUMP1090_HOST = ""
       THEN pc' = "done" /\ fatal' = TRUE /\ exitCode' = 1
       ELSE pc' = "dial" /\ UNCHANGED <<fatal, exitCode>>
    /\ UNCHANGED <<config, reader, messages, sent, accepted, streamEnd>>

\* net.Dial: a failure is fatal
Dial ==
    /\ pc = "dial"
    /\ \E connected \in BOOLEAN :
          IF connected
          THEN pc' = "read" /\ UNCHANGED <<fatal, exitCode>>
          ELSE pc' = "done" /\ fatal' = TRUE /\ exitCode' = 1
    /\ messages' = <<>>
    /\ UNCHANGED <<config, reader, sent, accepted, streamEnd>>

\* the threshold test with > for >=
ThresholdReached_Late(buf, size) == Len(buf) > size

\* len(messages) >= BATCH_SIZE
ThresholdReached(buf, size) == Len(buf) >= size

\* the slice left as it is after a send
ClearSlice_Kept(buf) == buf

\* messages[:0]
ClearSlice(buf) == SubSeq(buf, 1, 0)

\* the last send skipped for a single record
Remaining_Skip(buf) == Len(buf) > 1

\* the last send made whatever is left
Remaining_Always(buf) == Len(buf) >= 0

\* len(messages) > 0
Remaining(buf) == Len(buf) > 0

\* one call of sendToService, with how it ended and where runApp made it
Call(buf, res, at) == [events |-> Events(buf), result |-> res, at |-> at]

\* one turn of the read loop: scanner.Scan() returned true
ReadLine ==
    /\ pc = "read"
    /\ nread < Len(plan)
    /\ \E in \in Feed(plan[nread + 1]) :
       \E p \in {Parse(Encode(in), clock, intSize)} :
          LET buf == Append(messages, p.rec)
          IN /\ msg' = Encode(in)
             /\ src' = in
             /\ parsed' = p
             /\ IF p.ok
                THEN /\ accepted' = Append(accepted, p.rec)
                     /\ IF ThresholdReached(buf, BATCH_SIZE)
                        THEN \E res \in SendResults(buf) :
                                /\ sent' = Append(sent, Call(buf, res, "loop"))
                                /\ messages' = ClearSlice(buf)
                        ELSE messages' = buf /\ sent' = sent
                ELSE UNCHANGED <<messages, sent, accepted>>
    /\ clock' = clock + 1
    /\ nread' = nread + 1
    /\ UNCHANGED <<pc, config, streamEnd, fatal, exitCode>>

\* scanner.Scan() returned false, at the end of the stream or on a read error:
\* the rest of runApp, which returns nil, and the exit of the process
StreamEnd ==
    /\ pc = "read"
    /\ \E how \in {"eof", "error"} : streamEnd' = how
    /\ IF Remaining(messages)
       THEN \E res \in SendResults(messages) :
               sent' = Append(sent, Call(messages, res, "end"))
       ELSE sent' = sent
    /\ pc' = "done"
    /\ exitCode' = 0
    /\ UNCHANGED <<config, reader, messages, accepted, fatal>>

Next == Configure \/ Dial \/ ReadLine \/ StreamEnd

Spec == Init /\ [][Next]_vars

SpecParse == InitParse /\ [][Next]_vars

---------------------------------------------------------------------------
(* Properties of the read loop, checked under Spec *)

\* the records of one call of sendToService, read back from its events
Msgs(call) == [i \in 1..Len(call.events) |-> call.events[i].attrs.message]

RECURSIVE ConcatCalls(_)
ConcatCalls(calls) ==
    IF calls = <<>> THEN <<>> ELSE Msgs(Head(calls)) \o ConcatCalls(Tail(calls))

IsLoopCall(c) == c.at = "loop"
IsEndCall(c) == c.at = "end"
Posted(c) == c.result # "marshal"
Failed(c) == c.result # "ok"

\* the records of every batch sendToService was called with
Flushed == ConcatCalls(sent)

\* the records of the payloads that were posted to the endpoint
Handed == ConcatCalls(SelectSeq(sent, Posted))

LoopCalls == SelectSeq(sent, IsLoopCall)
EndCalls == SelectSeq(sent, IsEndCall)

\* the stream has ended and runApp has returned
Finished == pc = "done" /\ streamEnd # "none"

\* every event of every call is the event of the record at its place
EventsWellFormed ==
    \A j \in 1..Len(sent) : \A i \in 1..Len(sent[j].events) :
        LET e == sent[j].events[i] IN
        /\ e.ts = e.attrs.message.Timestamp
        /\ e.parser = "adsb" /\ e.sev = 3
        /\ e.attrs.message.MessageType = <<"M", "S", "G">>

(* C1: at every point of the run the payloads handed to the sink so far, in *)
(* flush order, followed by the buffer, are exactly the accepted records in *)
(* arrival order (nothing lost, doubled or reordered; rejected lines add    *)
(* nothing); every payload has one event per buffered record, in order; and *)
(* once the stream has ended and the run is over the buffer is empty.       *)
C1_Conservation ==
    /\ Handed \o messages = accepted
    /\ EventsWellFormed
    /\ Finished => messages = <<>>

(* C2: between two offers the buffer holds fewer than batchSize entries: the *)
(* offer that brings it to batchSize flushes it before returning.           *)
C2_BufferBelowBatchSize == Len(messages) < BATCH_SIZE

\* the buffer has been filled to one short of the threshold again after a flush
C2_Witness ==
    /\ pc = "read" /\ BATCH_SIZE >= 2
    /\ Len(sent) >= 1
    /\ Len(messages) = BATCH_SIZE - 1

(* C3: with n records accepted so far, exactly n div batchSize flushes have  *)
(* happened in the loop, the j-th with records (j-1)*batchSize+1 ..          *)
(* j*batchSize in arrival order, each in the step that accepted its last    *)
(* record; no flush of the stream's end happens before the end, and at the  *)
(* end there is exactly one more, with the last n mod batchSize records,    *)
(* when that remainder is not zero, and none otherwise.                     *)
C3_FlushSchedule ==
    LET n == Len(accepted) IN
    /\ sent = LoopCalls \o EndCalls
    /\ Len(LoopCalls) = n \div BATCH_SIZE
    /\ \A j \in 1..Len(LoopCalls) :
          Msgs(LoopCalls[j]) = SubSeq(accepted, (j - 1) * BATCH_SIZE + 1, j * BATCH_SIZE)
    /\ messages = SubSeq(accepted, n - (n % BATCH_SIZE) + 1, n)
    /\ ~Finished => EndCalls = <<>>
    /\ Finished =>
          IF n % BATCH_SIZE # 0
          THEN /\ Len(EndCalls) = 1
               /\ Msgs(EndCalls[1]) = SubSeq(accepted, n - (n % BATCH_SIZE) + 1, n)
          ELSE EndCalls = <<>>

\* 2 * batchSize + k records, 0 < k < batchSize: two full flushes and a partial one
C3_Witness ==
    /\ Finished
    /\ Len(accepted) > 2 * BATCH_SIZE /\ Len(accepted) < 3 * BATCH_SIZE
    /\ Len(LoopCalls) = 2 /\ Len(EndCalls) = 1
    /\ Len(EndCalls[1].events) = Len(accepted) - 2 * BATCH_SIZE

\* the stream ended with exactly batchSize - 1 records accepted
LastShort == Finished /\ Len(accepted) = BATCH_SIZE - 1

\* one flush, made at the end of the stream, with all the accepted records
OneFinalFlush ==
    /\ Len(sent) = 1
    /\ sent[1].at = "end"
    /\ Msgs(sent[1]) = accepted

(* C4 as stated: for every batchSize >= 1, batchSize - 1 records and then    *)
(* the end of the stream give exactly one flush, at the end and not before, *)
(* with exactly those records.                                              *)
C4_Original ==
    /\ (Len(accepted) < BATCH_SIZE /\ ~Finished) => sent = <<>>
    /\ LastShort => OneFinalFlush

(* C4 amended: the same for every batchSize >= 2; with batchSize = 1 there   *)
(* is no record and no flush at all.                                        *)
C4_OneFinalFlush ==
    /\ (Len(accepted) < BATCH_SIZE /\ ~Finished) => sent = <<>>
    /\ (LastShort /\ BATCH_SIZE >= 2) => OneFinalFlush
    /\ (LastShort /\ BATCH_SIZE = 1) => sent = <<>>

C4_Witness == LastShort /\ BATCH_SIZE >= 2 /\ OneFinalFlush

(* C6: when the connection fails or closes while it is read, the run ends    *)
(* with a fatal error and a non-zero exit status, not as a normal           *)
(* completion.                                                              *)
C6_ReadFailureIsFatal == Finished => (fatal /\ exitCode # 0)

(* C9: sendToService is never called with no record: every payload has      *)
(* between 1 and batchSize events, and when the stream ends with a multiple *)
(* of batchSize accepted (zero included) there is no flush at the end.      *)
C9_NoEmptyFlush ==
    /\ \A j \in 1..Len(sent) :
          Len(sent[j].events) >= 1 /\ Len(sent[j].events) <= BATCH_SIZE
    /\ (Finished /\ Len(accepted) % BATCH_SIZE = 0) => EndCalls = <<>>

\* the stream ended right after a threshold flush
C9_Witness ==
    /\ Finished
    /\ Len(accepted) = 2 * BATCH_SIZE
    /\ Len(sent) = 2 /\ EndCalls = <<>>

\* the last step called sendToService and the request to the endpoint failed
FailedFlushStep ==
    /\ Len(sent') = Len(sent) + 1
    /\ sent'[Len(sent')].result = "request"

\* no batch is sent again: the batches sent are consecutive stretches of the
\* accepted records, and the buffer holds what was accepted after the last one
NoRetry ==
    /\ Len(Flushed) <= Len(accepted)
    /\ Flushed = SubSeq(accepted, 1, Len(Flushed))
    /\ pc = "read" => Flushed \o messages = accepted
    /\ (\E j \in 1..Len(sent) : Failed(sent[j])) => ~fatal

(* C5: a failed send, in the loop or at the end of the stream, raises no     *)
(* fatal error and leaves the buffer empty immediately afterwards, as a     *)
(* successful one does; the failed batch is never sent again, and the loop  *)
(* puts the following records into a fresh batch.                           *)
C5_FailedSendDropsBatch ==
    /\ []NoRetry
    /\ [][FailedFlushStep => (messages' = <<>> /\ ~fatal' /\ exitCode' # 1)]_vars

---------------------------------------------------------------------------
(* Properties of Parse, checked under SpecParse *)

\* field k of the last line as it reaches the field parsers: the line's own
\* white space is trimmed from its last field
FieldText(k) ==
    IF k = Len(src.fields) THEN TrimRight(src.fields[k] \o src.trail)
    ELSE src.fields[k]

NumCommas(line) == Cardinality({i \in 1..Len(line) : line[i] = ","})

\* after its leading white space the line reads MSG and a comma
StartsWithTag(line) ==
    \E k \in 0..Len(line) :
        /\ \A i \in 1..k : IsSpace(line[i])
        /\ k + 4 <= Len(line)
        /\ line[k + 1] = "M" /\ line[k + 2] = "S" /\ line[k + 3] = "G"
        /\ line[k + 4] = ","

\* at least 22 fields, the first of them MSG
WellFormed(line) == NumCommas(line) >= MinFields - 1 /\ StartsWithTag(line)

\* nothing of the record but its timestamp is set
OnlyTimestamp(rec) ==
    /\ rec.MessageType = <<>> /\ rec.TransmissionType = 0
    /\ rec.SessionID = <<>> /\ rec.AircraftID = <<>> /\ rec.Icao24 = <<>>
    /\ rec.FlightID = <<>> /\ rec.Callsign = <<>>
    /\ ~rec.GeneratedDate.valid /\ ~rec.LoggedDate.valid
    /\ rec.Altitude = 0 /\ rec.VerticalRate = 0 /\ rec.Squawk = 0
    /\ rec.GroundSpeed = FloatZero /\ rec.Track = FloatZero
    /\ rec.Lat = FloatZero /\ rec.Lon = FloatZero
    /\ ~rec.Alert /\ ~rec.Emergency /\ ~rec.Spi /\ ~rec.OnGround

AcceptsExactlyWellFormed ==
    nread > 0 =>
        /\ parsed.ok <=> WellFormed(msg)
        /\ ~parsed.ok => OnlyTimestamp(parsed.rec)

\* a form feed, a vertical tab, a no-break space, a next-line and an
\* ideographic space around a report are trimmed as a space or a tab is; a
\* zero-width space, which is no white space, is not
TrimsUnicodeSpace ==
    (nread > 0 /\ src.fields[1] = <<"M", "S", "G">> /\ Len(src.fields) >= MinFields) =>
        /\ (src.lead \in {<<>>, <<" ">>, <<"\t", " ">>, <<"\f">>, <<"U+00A0", " ">>})
              => parsed.ok
        /\ src.lead = <<"U+200B">> => ~parsed.ok

(* C7: Parse accepts a line exactly when, trimmed and split on commas, it    *)
(* has at least 22 fields of which the first is MSG; a rejected line sets   *)
(* nothing but the timestamp, and the loop drops it without touching the    *)
(* buffer or sending; no field's value and no extra field rejects a line.   *)
C7_StructuralValidation ==
    /\ []AcceptsExactlyWellFormed
    /\ []TrimsUnicodeSpace
    /\ [][(nread' = nread + 1 /\ ~parsed'.ok) =>
             UNCHANGED <<messages, sent, accepted>>]_vars

\* a MSG line one field short, between a form feed and a vertical tab, was
\* dropped while a record was buffered
C7_Witness ==
    /\ nread = 2 /\ ~parsed.ok
    /\ src.lead = <<"\f">> /\ src.trail = <<"U+000B">>
    /\ src.fields[1] = <<"M", "S", "G">> /\ Len(src.fields) = MinFields - 1
    /\ messages # <<>>

\* the text is an optional sign and one or more digits
IsIntSyntax(t) ==
    LET ds == IF t # <<>> /\ Head(t) \in {"+", "-"} THEN Tail(t) ELSE t
    IN ds # <<>> /\ \A i \in 1..Len(ds) : ds[i] \in Digits

\* the magnitude written by a text of that form, as a decimal
RECURSIVE DecOfDigits(_)
DecOfDigits(ds) ==
    IF ds = <<>> THEN <<>>
    ELSE LET n == Len(ds)
             k == IF n < 4 THEN n ELSE 4
         IN <<DigitsValue(SubSeq(ds, n - k + 1, n), 0)>> \o DecOfDigits(SubSeq(ds, 1, n - k))

MagnitudeOf(t) ==
    StripZeros(DecOfDigits(IF Head(t) \in {"+", "-"} THEN Tail(t) ELSE t))

Dec2to31 == DecPow2(31)
Dec2to63 == DecPow2(63)

\* the integer of that sign and magnitude is an int of the build
FitsInt(neg, mag, bits) ==
    LET half == IF bits = 64 THEN Dec2to63 ELSE Dec2to31
    IN DecLess(mag, half) \/ (neg /\ mag = half)

\* the text is an integer the build's int can hold
IntParses(t, bits) ==
    IsIntSyntax(t) /\ FitsInt(Head(t) = "-", MagnitudeOf(t), bits)

HasNonzeroDigit(t) == \E i \in 1..Len(t) : t[i] \in Digits \ {"0"}

\* the value of the record's field read from field k of the line
Value(rec, k) ==
    CASE k = 2 -> rec.TransmissionType
      [] k = 3 -> rec.SessionID
      [] k = 4 -> rec.AircraftID
      [] k = 5 -> rec.Icao24
      [] k = 6 -> rec.FlightID
      [] k \in {7, 8} -> rec.GeneratedDate
      [] k \in {9, 10} -> rec.LoggedDate
      [] k = 11 -> rec.Callsign
      [] k = 12 -> rec.Altitude
      [] k = 13 -> rec.GroundSpeed
      [] k = 14 -> rec.Track
      [] k = 15 -> rec.Lat
      [] k = 16 -> rec.Lon
      [] k = 17 -> rec.VerticalRate
      [] k = 18 -> rec.Squawk
      [] k = 19 -> rec.Alert
      [] k = 20 -> rec.Emergency
      [] k = 21 -> rec.Spi
      [] k = 22 -> rec.OnGround

\* the fields of the line the value read from field k depends on
Sources(k) ==
    IF k \in {7, 8} THEN {7, 8} ELSE IF k \in {9, 10} THEN {9, 10} ELSE {k}

Moment(y, mo, d, h, mi, sec, ns) ==
    [valid |-> TRUE, year |-> y, month |-> mo, day |-> d,
     hour |-> h, min |-> mi, sec |-> sec, nsec |-> ns]

\* the float32 mant * 2^exp
Binary(neg, mant, exp) == [kind |-> "fin", neg |-> neg, mant |-> mant, exp |-> exp]

\* what GoodFields decodes to, but for the timestamp
GoodRecord ==
    [MessageType |-> <<"M", "S", "G">>, TransmissionType |-> 3,
     SessionID |-> <<"1">>, AircraftID |-> <<"1">>,
     Icao24 |-> <<"4", "C", "A", "2", "D", "6">>, FlightID |-> <<"1">>,
     GeneratedDate |-> Moment(2023, 5, 1, 12, 0, 0, 0),
     LoggedDate |-> Moment(2023, 5, 1, 12, 0, 1, 0),
     Callsign |-> <<"B", "A", "W", "1", "2">>,
     Altitude |-> 35000, GroundSpeed |-> Binary(FALSE, 901, -1),
     Track |-> Binary(FALSE, 45, 1), Lat |-> Binary(FALSE, 103, -1),
     Lon |-> Binary(TRUE, 16106127, -27), VerticalRate |-> -64, Squawk |-> 7000,
     Alert |-> FALSE, Emergency |-> FALSE, Spi |-> FALSE, OnGround |-> TRUE]

\* what BadFields decodes to, but for the timestamp: every value its default
BadRecord ==
    [MessageType |-> <<"M", "S", "G">>, TransmissionType |-> 0,
     SessionID |-> <<>>, AircraftID |-> <<>>, Icao24 |-> <<>>, FlightID |-> <<>>,
     GeneratedDate |-> NilTime, LoggedDate |-> NilTime, Callsign |-> <<>>,
     Altitude |-> 0, GroundSpeed |-> FloatZero, Track |-> FloatZero,
     Lat |-> FloatZero, Lon |-> FloatZero, VerticalRate |-> 0, Squawk |-> 0,
     Alert |-> FALSE, Emergency |-> FALSE, Spi |-> FALSE, OnGround |-> FALSE]

\* a field that reads as in the report `fields` has the value it has in `rec`
Independent(fields, rec) ==
    \A k \in 2..MinFields :
        (\A j \in Sources(k) : FieldText(j) = fields[j]) =>
            Value(parsed.rec, k) = Value(rec, k)

\* the float texts tried that strconv.ParseFloat refuses: those that are no
\* number as Go writes one, and those that write one beyond the float32 range
BadFloatTexts ==
    {<<>>,
     <<"x">>,
     <<".">>,
     <<"-">>,
     <<"1", ".", "2", ".", "3">>,
     <<" ", "1">>,
     <<"1", " ">>,
     <<"i", "n", "f", "i">>,
     <<"+", "n", "a", "n">>,
     <<"1", "-">>,
     <<"1", "e">>,
     <<"1", "e", "+">>,
     <<"e", "3">>,
     <<"1", "_">>,
     <<"_", "1">>,
     <<"1", "_", "_", "0">>,
     <<"1", "_", "e", "3">>,
     <<"1", "e", "3", "_">>,
     <<"1", ".", "_", "5">>,
     <<"0", "x", "1">>,
     <<"0", "x">>,
     <<"0", "x", "p", "1">>,
     <<"0", "x", "1", "p">>,
     <<"0", "x", "1", "p", "+">>,
     <<"1", "e", "3", "x">>,
     <<"1", ".", "5", ".", "e", "3">>,
     <<"1", "e", "3", "9">>,
     <<"4", "e", "3", "8">>,
     <<"3", ".", "4", "0", "2", "8", "2", "3", "6", "e", "3", "8">>,
     <<"3", ".", "4", "0", "2", "8", "2", "3", "5", "6", "7", "7", "9", "7", "3", "3", "6", "7", "e", "3", "8">>,
     <<"1", "0", "0", "0", "0", "0", "0", "0", "0", "0", "0", "0", "0", "0", "0", "0", "0", "0", "0", "0", "0", "0", "0", "0", "0", "0", "0", "0", "0", "0", "0", "0", "0", "0", "0", "0", "0", "0", "0", "0">>,
     <<"1", "e", "9", "9", "9", "9", "9">>,
     <<"0", "x", "1", "p", "1", "2", "8">>,
     <<"0", "x", "1", ".", "f", "f", "f", "f", "f", "f", "p", "1", "2", "7">>}

\* float texts tried that strconv.ParseFloat takes (exponents, hexadecimal
\* floats, underscores between digits, more digits than a float32 holds),
\* each with the float32 nearest to the number it writes
GoodFloatTexts ==
    {<<<<"1", "e", "3">>, Binary(FALSE, 125, 3)>>,
     <<<<"1", "E", "3">>, Binary(FALSE, 125, 3)>>,
     <<<<"1", "e", "+", "2">>, Binary(FALSE, 25, 2)>>,
     <<<<"1", ".", "5", "e", "-", "2">>, Binary(FALSE, 16106127, -30)>>,
     <<<<"0", "x", "1", "p", "4">>, Binary(FALSE, 1, 4)>>,
     <<<<"0", "X", "1", "P", "-", "2">>, Binary(FALSE, 1, -2)>>,
     <<<<"0", "x", "1", ".", "8", "p", "1">>, Binary(FALSE, 3, 0)>>,
     <<<<"1", "_", "0">>, Binary(FALSE, 5, 1)>>,
     <<<<"1", "_", "0", "0", "0", ".", "5">>, Binary(FALSE, 2001, -1)>>,
     <<<<"1", "5", "0", ".", "0", "0", "0", "0", "1">>, Binary(FALSE, 9830401, -16)>>,
     <<<<"1", "5", "0", ".", "0", "0", "0", "0", "2">>, Binary(FALSE, 9830401, -16)>>,
     <<<<"1", "6", "7", "7", "7", "2", "1", "6">>, Binary(FALSE, 1, 24)>>,
     <<<<"1", "6", "7", "7", "7", "2", "1", "7">>, Binary(FALSE, 1, 24)>>,
     <<<<"-", "1", "7", "9", ".", "1", "2", "3", "4", "5">>, Binary(TRUE, 5869517, -15)>>,
     <<<<"3", ".", "4", "0", "2", "8", "2", "3", "5", "e", "3", "8">>, Binary(FALSE, 16777215, 104)>>,
     <<<<"1", "e", "-", "4", "5">>, Binary(FALSE, 1, -149)>>,
     <<<<"0", ".", "0", "0", "0", "0", "0", "0", "0", "0", "0", "0", "0", "0", "0", "0", "0", "0", "0", "0", "0", "0", "0", "0", "0", "0", "0", "0", "0", "0", "0", "0", "0", "0", "0", "0", "0", "0", "0", "0", "0", "0", "0", "0", "0", "0", "0", "0", "0", "0", "0", "1">>, Binary(FALSE, 0, 0)>>}

\* what is no failure is read as Go reads it: a float field to the nearest
\* float32, the callsign without the white space around it
ReadsAsWritten ==
    /\ \A k \in 13..16 : \A g \in GoodFloatTexts :
          FieldText(k) = g[1] => Value(parsed.rec, k) = g[2]
    /\ FieldText(11) \in {<<" ", "A", " ">>, <<"A", "\f">>, <<"U+00A0", "A", "U+3000">>,
                          <<"U+000B", "A", "U+0085">>}
          => Value(parsed.rec, 11) = <<"A">>
    /\ FieldText(11) = <<"U+200B", "A">> => Value(parsed.rec, 11) = <<"U+200B", "A">>

\* the date texts tried that the layout 2006/01/02 15:04:05 takes
LayoutDates ==
    {<<"2", "0", "2", "3", "/", "0", "5", "/", "0", "1">>,
     <<"2", "0", "2", "4", "/", "0", "2", "/", "2", "9">>,
     <<"2", "0", "2", "3", "/", "0", "5", "/", "0", "1", " ">>}

\* the time texts tried that the layout takes: a fraction of a second may
\* follow the seconds, the hour may have one digit, spaces may precede it
LayoutTimes ==
    {<<"1", "2", ":", "0", "0", ":", "0", "0">>,
     <<"2", "3", ":", "5", "9", ":", "5", "9">>,
     <<"1", "2", ":", "0", "0", ":", "0", "0", ".", "0", "0", "0">>,
     <<"1", "2", ":", "0", "0", ":", "0", "1", ".", "0", "0", "0">>,
     <<"1", "2", ":", "0", "0", ":", "0", "0", ".", "5">>,
     <<"5", ":", "0", "4", ":", "0", "5">>,
     <<" ", "1", "2", ":", "0", "0", ":", "0", "0">>}

\* the text is four digits, two digits and two digits between slashes
DateShape(d) ==
    /\ Len(d) = 10 /\ d[5] = "/" /\ d[8] = "/"
    /\ \A i \in {1, 2, 3, 4, 6, 7, 9, 10} : d[i] \in Digits

\* the text is two digits, two digits and two digits between colons
TimeShape(t) ==
    /\ Len(t) = 8 /\ t[3] = ":" /\ t[6] = ":"
    /\ \A i \in {1, 2, 4, 5, 7, 8} : t[i] \in Digits

\* the defaults of the integer, float and boolean fields of a well-formed line
DefaultsOnFailure ==
    /\ \A k \in IntFieldsAt :
          ~IntParses(FieldText(k), intSize) => Value(parsed.rec, k) = 0
    /\ \A k \in 13..16 :
          FieldText(k) \in BadFloatTexts => Value(parsed.rec, k) = FloatZero
    /\ \A k \in 19..22 :
          Value(parsed.rec, k)
             = (IntParses(FieldText(k), intSize) /\ HasNonzeroDigit(FieldText(k)))
    /\ Independent(GoodFields, GoodRecord)
    /\ Independent(BadFields, BadRecord)

(* C8 as stated: a well-formed line is accepted whatever its value fields    *)
(* read; an integer field that does not parse is 0, a float field 0.0, a    *)
(* boolean field is true exactly when it parses as a nonzero integer, a     *)
(* date and time that do not have the form YYYY/MM/DD HH:MM:SS are null;    *)
(* and no field's failure changes another field's value.                    *)
C8_Original ==
    (nread > 0 /\ WellFormed(msg)) =>
        /\ parsed.ok
        /\ DefaultsOnFailure
        /\ \A k \in {7, 9} :
              ~(DateShape(FieldText(k)) /\ TimeShape(FieldText(k + 1)))
                 => Value(parsed.rec, k) = NilTime

(* C8 amended: the same, but a date and time are null exactly when Go's      *)
(* time.Parse refuses them under the layout 2006/01/02 15:04:05, which      *)
(* takes more than that form: a fraction of a second after the seconds (the *)
(* 12:00:00.000 of a real feed), an hour of one digit, and more than one    *)
(* space between date and time; what it takes decodes to that instant.  A   *)
(* float field that strconv.ParseFloat takes is not defaulted: it reads as  *)
(* the float32 nearest to the number written.                               *)
C8_BestEffortDecode ==
    (nread > 0 /\ WellFormed(msg)) =>
        /\ parsed.ok
        /\ DefaultsOnFailure
        /\ ReadsAsWritten
        /\ \A k \in {7, 9} :
              IF FieldText(k) \in LayoutDates /\ FieldText(k + 1) \in LayoutTimes
              THEN Value(parsed.rec, k).valid
              ELSE Value(parsed.rec, k) = NilTime
        /\ \A k \in {7, 9} :
              /\ (FieldText(k) = GoodFields[7] /\ FieldText(k + 1) = <<"1", "2", ":", "0", "0", ":", "0", "0">>)
                    => Value(parsed.rec, k) = Moment(2023, 5, 1, 12, 0, 0, 0)
              /\ (FieldText(k) = GoodFields[7] /\ FieldText(k + 1) = <<"1", "2", ":", "0", "0", ":", "0", "0", ".", "5">>)
                    => Value(parsed.rec, k) = Moment(2023, 5, 1, 12, 0, 0, 500000000)

\* a report of defaults but for one boolean field, which reads 1
C8_Witness ==
    /\ nread = 2 /\ parsed.ok
    /\ src.fields = [BadFields EXCEPT ![19] = <<"1">>]
    /\ parsed.rec.Alert /\ ~parsed.rec.Emergency
    /\ parsed.rec.Altitude = 0 /\ parsed.rec.Lat = FloatZero
    /\ parsed.rec.GeneratedDate = NilTime

\* the integer a text of at most nine digits writes
SmallValue(t) ==
    LET n == DigitsValue(IF Head(t) \in {"+", "-"} THEN Tail(t) ELSE t, 0)
    IN IF Head(t) = "-" THEN -n ELSE n

(* C10: an integer field whose text is a decimal integer v that the build's  *)
(* int can hold decodes into the int32 range: to v when v is in that range, *)
(* otherwise to the int32 that differs from v by a multiple of 2^32; a text *)
(* that is no such integer decodes to 0.                                    *)
C10_NarrowToInt32 ==
    (nread > 0 /\ parsed.ok) =>
        \A k \in IntFieldsAt :
            LET t == FieldText(k)
                v == Value(parsed.rec, k)
            IN /\ v >= MinInt32 /\ v <= MaxInt32
               /\ ~IntParses(t, intSize) => v = 0
               /\ (IntParses(t, intSize) /\ Len(t) <= 9) => v = SmallValue(t)
               /\ src.tag.k = k =>
                     v = IF FitsInt(src.tag.neg, src.tag.digits, intSize)
                         THEN src.tag.r ELSE 0

\* the altitude 4294967295 = 2^32 - 1 decodes to -1 on a 64-bit build
C10_Witness ==
    /\ nread = 2 /\ parsed.ok /\ intSize = 64
    /\ src.tag.k = 12 /\ ~src.tag.neg /\ src.tag.digits = DecSub(DecPow2(32), <<1>>)
    /\ src.tag.r = -1
    /\ parsed.rec.Altitude = -1

=============================================================================
